---------------------------- MODULE Spec2Model ----------------------------
(***************************************************************************)
(* Voice interaction controller of the oral-exam practice tool:            *)
(* src/src/hooks/useSpeech.ts (the useSpeech hook).                         *)
(*                                                                         *)
(* Text is modelled as a sequence of characters.  The module is kept in    *)
(* ASCII, so every Japanese character of the source is written as a        *)
(* romanised character name: kanji as "K_...", katakana in upper case,     *)
(* hiragana in lower case with a trailing underscore ("ka_"), the small    *)
(* kana with an "s" prefix.  Latin letters stand for themselves.           *)
(***************************************************************************)
EXTENDS Integers, Sequences, FiniteSets, TLC

VARIABLES
    \* ---- speech recognition (capture) side of the hook
    recognitionRef,        \* TRUE iff recognitionRef.current is a recognizer
    tornDown,              \* the cleanup of the hook's mount effect has run
    isListening,           \* useState isListening
    isListeningRef,        \* isListeningRef.current
    isRecordingAnswer,     \* useState isRecordingAnswer
    isRecordingAnswerRef,  \* isRecordingAnswerRef.current
    transcript,            \* useState transcript (sequence of characters)
    lastCommand,           \* useState lastCommand (Null or a command name)
    session,               \* the host recognizer: idle, running, stopping, failed
    restartTimers,         \* pending setTimeout(..., 100) callbacks of onend
    \* ---- speech synthesis (playback) side of the hook
    synthRef,              \* TRUE iff synthRef.current is the host synthesizer
    isSpeaking,            \* useState isSpeaking
    utterances,            \* one record per speak() call, in call order
    \* ---- the practice page (src/src/app/practice/page.tsx)
    phase,                 \* useState phase
    questions,             \* useState questions, as their number
    currentIndex,          \* useState currentIndex
    answers,               \* useState answers, as their question ids
    evaluations,           \* useState evaluations, as their question ids
    currentEvaluation,     \* useState currentEvaluation (Null or a question id)
    isSubmitting,          \* useState isSubmitting
    seenCommand,           \* the lastCommand the voice-command effect last ran for
    crashed,               \* a handler or effect of the page threw
    hasReadCurrentQuestion, \* hasReadCurrentQuestion.current
    readTimers,            \* pending setTimeout(..., 500) of readQuestion, as
                           \* the currentIndex each closure holds, in order
    scheduledReads,        \* history: the questions the auto-read effect
                           \* started readQuestion for, in order
    \* ---- the command classifier applied on its own
    clsText,               \* the utterance handed to the classifier
    clsCommand,            \* its result (Pending before it ran)
    \* ---- the generator library (src/unnamed/part_001)
    outcome,               \* the last call: function, reply of the service,
                           \* and the value returned or the error thrown
    \* ---- history
    heard,                 \* final results delivered while recording, since
                           \* the last startAnswerRecording / resetTranscript
    awaitingRestart,       \* the session ended on its own while listening,
                           \* and since then stopCommandListening was not
                           \* called and no restart timer fired
    preemption,            \* of the first two speak() calls, until a third:
                           \* whether the second found the first utterance
                           \* live, whether the second utterance started,
                           \* and who turned isSpeaking from true to false
                           \* (the number of the utterance whose handler
                           \* did, 0 for stopSpeaking), in order
    last                   \* the operation that made the last step

vars == <<recognitionRef, tornDown, isListening, isListeningRef, isRecordingAnswer,
          isRecordingAnswerRef, transcript, lastCommand, session,
          restartTimers, synthRef, isSpeaking, utterances, phase, questions,
          currentIndex, answers, evaluations, currentEvaluation, isSubmitting,
          seenCommand, crashed, hasReadCurrentQuestion, readTimers,
          scheduledReads, clsText, clsCommand, outcome, heard,
          awaitingRestart, preemption, last>>

captureVars == <<recognitionRef, tornDown, isListening, isListeningRef,
                 isRecordingAnswer, isRecordingAnswerRef, transcript,
                 lastCommand, session, restartTimers, heard,
                 awaitingRestart>>

synthVars == <<synthRef, isSpeaking, utterances, preemption>>

readVars == <<hasReadCurrentQuestion, readTimers, scheduledReads>>

pageVars == <<phase, questions, currentIndex, answers, evaluations,
              currentEvaluation, isSubmitting, seenCommand, crashed,
              readVars>>

clsVars == <<clsText, clsCommand>>

libVars == <<outcome>>

-----------------------------------------------------------------------------
(* Bounds of the model *)

\* results carried by one onresult event
MaxResults == 2
\* final results remembered in heard (caps the length of a recording)
MaxHeard == 3
\* restart timers pending at the same time
MaxTimers == 2
\* speak() calls in one behaviour
MaxSpeak == 3
\* tokens concatenated into one classifier input
MaxTokens == 2
\* questions of a practice session
MaxQuestions == 2
\* final results remembered in heard while the page is modelled
MaxDictated == 1
\* tokens of a reply of the generative service
MaxReply == 4

-----------------------------------------------------------------------------
(* Text *)

Null == "null"
Pending == "pending"

\* String.prototype.toLowerCase on one character: only the Latin capitals of
\* the model's alphabet change, the Japanese characters have no case.
LowerChar(c) ==
    CASE c = "H" -> "h"
      [] c = "W" -> "w"
      [] OTHER -> c

ToLowerCase(text) == [i \in 1..Len(text) |-> LowerChar(text[i])]

\* String.prototype.includes
Includes(text, trigger) ==
    \E i \in 0..(Len(text) - Len(trigger)) :
        SubSeq(text, i + 1, i + Len(trigger)) = trigger

\* The trigger table, in the order Object.entries enumerates it.
VOICE_COMMANDS ==
    << [command  |-> "START_ANSWER",
        triggers |-> << <<"K_kai", "K_tou", "K_hiraku", "K_shi">>,
                        <<"K_hiraku", "K_shi">>,
                        <<"ka_", "i_", "to_", "u_", "ka_", "i_", "shi_">>,
                        <<"ka_", "i_", "shi_">>,
                        <<"SU", "TA", "LONG", "TO">> >>],
       [command  |-> "STOP_ANSWER",
        triggers |-> << <<"K_kai", "K_tou", "K_shuu", "K_ryou">>,
                        <<"K_shuu", "K_ryou">>,
                        <<"ka_", "i_", "to_", "u_", "shi_", "syu_", "u_",
                          "ri_", "syo_", "u_">>,
                        <<"shi_", "syu_", "u_", "ri_", "syo_", "u_">>,
                        <<"SU", "TO", "sTSU", "PU">> >>],
       [command  |-> "NEXT",
        triggers |-> << <<"K_tsugi", "he_">>,
                        <<"tsu_", "gi_", "he_">>,
                        <<"K_tsugi">>,
                        <<"tsu_", "gi_">>,
                        <<"NE", "KU", "SU", "TO">> >>],
       [command  |-> "REPEAT",
        triggers |-> << <<"mo_", "u_", "K_ichi", "K_do">>,
                        <<"mo_", "u_", "i_", "chi_", "do_">>,
                        <<"K_kuri", "ri_", "K_kae", "shi_">>,
                        <<"ku_", "ri_", "ka_", "e_", "shi_">>,
                        <<"RI", "PI", "LONG", "TO">> >>],
       [command  |-> "SKIP",
        triggers |-> << <<"SU", "KI", "sTSU", "PU">>,
                        <<"PA", "SU">> >>] >>

\* the mutated match: the utterance must be the trigger phrase itself
SomeTriggerEquals(lowerText, triggers) ==
    \E j \in 1..Len(triggers) : lowerText = triggers[j]

\* triggers.some(trigger => lowerText.includes(trigger))
SomeTrigger(lowerText, triggers) ==
    \E j \in 1..Len(triggers) : Includes(lowerText, triggers[j])

\* The mutated classifier: the trigger that occurs first in the utterance
\* decides, instead of the first entry of the table.
RECURSIVE ClassifyByPosition(_, _)
ClassifyByPosition(lowerText, k) ==
    IF k > Len(lowerText) THEN Null
    ELSE LET hit == {c \in 1..Len(VOICE_COMMANDS) :
                        \E j \in 1..Len(VOICE_COMMANDS[c].triggers) :
                            LET t == VOICE_COMMANDS[c].triggers[j]
                            IN  /\ k + Len(t) - 1 <= Len(lowerText)
                                /\ SubSeq(lowerText, k, k + Len(t) - 1) = t}
         IN  IF hit # {}
             THEN VOICE_COMMANDS[CHOOSE c \in hit : \A d \in hit : c <= d].command
             ELSE ClassifyByPosition(lowerText, k + 1)

\* for (const [command, triggers] of Object.entries(VOICE_COMMANDS)) {...break}
\* from entry k on; Null when no entry matches (commandFound stays false).
RECURSIVE ClassifyFrom(_, _)
ClassifyFrom(lowerText, k) ==
    IF k > Len(VOICE_COMMANDS) THEN Null
    ELSE IF SomeTrigger(lowerText, VOICE_COMMANDS[k].triggers)
         THEN VOICE_COMMANDS[k].command
         ELSE ClassifyFrom(lowerText, k + 1)

\* the mutated classifier, as a function of the utterance
ClassifyPositional(text) == ClassifyByPosition(ToLowerCase(text), 1)

\* The command the onresult handler finds in one final result.
Classify(text) == ClassifyFrom(ToLowerCase(text), 1)

-----------------------------------------------------------------------------
(* Speech recognition: the recognizer's handlers *)

\* The utterances the host delivers in the capture model: dictation (one
\* with a capital) and a command as final results, the command as an
\* interim result (the handler never reads the text of an interim result).
UttHello == <<"H", "e", "l", "l", "o">>
UttWorld == <<"w", "o", "r", "l", "d">>
UttNext == <<"K_tsugi", "he_">>

FinalUtterances == {UttHello, UttWorld, UttNext}
InterimUtterances == {UttNext}

\* The utterances the host delivers to the practice page: dictation and one
\* utterance for every command of the table.
UttStart == <<"K_hiraku", "K_shi">>
UttStop == <<"K_shuu", "K_ryou">>
UttRepeat == <<"mo_", "u_", "K_ichi", "K_do">>
UttSkip == <<"PA", "SU">>

PageUtterances == {UttHello, UttStart, UttStop, UttNext, UttRepeat, UttSkip}

\* The command check of onresult on each utterance of the model, computed
\* once.
CommandIn ==
    [t \in FinalUtterances \cup InterimUtterances \cup PageUtterances |->
        Classify(t)]

\* the mutated append condition: a command utterance is dictated as well
KeepTextOfCommands(recording, commandFound) == recording

\* if (isRecordingAnswerRef.current && !commandFound) finalTranscript += text
KeepText(recording, commandFound) == recording /\ ~commandFound

\* the mutated loop: it looks for a command only while recording
RECURSIVE OnResultLoopWhileRecording(_, _, _, _)
OnResultLoopWhileRecording(results, i, acc, recording) ==
    IF i > Len(results) THEN acc
    ELSE LET result == results[i]
             command == IF recording THEN CommandIn[result.text] ELSE Null
             commandFound == command # Null
         IN  IF result.isFinal
             THEN OnResultLoopWhileRecording(results, i + 1,
                    [finalTranscript |->
                        IF KeepText(recording, commandFound)
                        THEN acc.finalTranscript \o result.text
                        ELSE acc.finalTranscript,
                     lastCommand |->
                        IF commandFound THEN command ELSE acc.lastCommand],
                    recording)
             ELSE OnResultLoopWhileRecording(results, i + 1, acc, recording)

\* the mutated loop: it treats every result as final
RECURSIVE OnResultLoopOfAnyResult(_, _, _, _)
OnResultLoopOfAnyResult(results, i, acc, recording) ==
    IF i > Len(results) THEN acc
    ELSE LET result == results[i]
             command == CommandIn[result.text]
             commandFound == command # Null
         IN  OnResultLoopOfAnyResult(results, i + 1,
                [finalTranscript |->
                    IF KeepText(recording, commandFound)
                    THEN acc.finalTranscript \o result.text
                    ELSE acc.finalTranscript,
                 lastCommand |->
                    IF commandFound THEN command ELSE acc.lastCommand],
                recording)

\* The for loop of onresult from result i on.  acc carries finalTranscript
\* and the value the setLastCommand calls made so far leave in lastCommand.
RECURSIVE OnResultLoop(_, _, _, _)
OnResultLoop(results, i, acc, recording) ==
    IF i > Len(results) THEN acc
    ELSE LET result == results[i]
             command == CommandIn[result.text]
             commandFound == command # Null
         IN  IF result.isFinal
             THEN OnResultLoop(results, i + 1,
                    [finalTranscript |->
                        IF KeepText(recording, commandFound)
                        THEN acc.finalTranscript \o result.text
                        ELSE acc.finalTranscript,
                     lastCommand |->
                        IF commandFound THEN command ELSE acc.lastCommand],
                    recording)
             ELSE OnResultLoop(results, i + 1, acc, recording)

\* the texts of the final results of an event, in order
RECURSIVE FinalTexts(_)
FinalTexts(results) ==
    IF results = <<>> THEN <<>>
    ELSE (IF Head(results).isFinal THEN <<Head(results).text>> ELSE <<>>)
         \o FinalTexts(Tail(results))

Results ==
    {[text |-> t, isFinal |-> TRUE] : t \in FinalUtterances}
    \cup {[text |-> t, isFinal |-> FALSE] : t \in InterimUtterances}

\* event.results from event.resultIndex on
Events == UNION {[1..n -> Results] : n \in 1..MaxResults}

\* the events the host delivers to the practice page: one final result each
PageEvents == {<<[text |-> t, isFinal |-> TRUE]>> : t \in PageUtterances}

\* the events the host delivers when the page is modelled with the playback
\* side: dictation and the commands NEXT and REPEAT
PlaybackEvents ==
    {<<[text |-> t, isFinal |-> TRUE]>> : t \in {UttHello, UttNext, UttRepeat}}

\* the events of one or two results with dictation, two different commands
\* and an interim result
CommandResults ==
    {[text |-> t, isFinal |-> TRUE] : t \in {UttHello, UttNext, UttSkip}}
    \cup {[text |-> UttNext, isFinal |-> FALSE]}

CommandEvents == UNION {[1..n -> CommandResults] : n \in 1..MaxResults}

\* the events that carry interim results only
InterimEvents == {e \in Events : \A i \in 1..Len(e) : ~e[i].isFinal}

\* recognition.start(): throws when the session has already been started
\* (its end event is still to come) or when the host refuses (fail).
StartSucceeds(fail) == session = "idle" /\ ~fail

\* recognition.onresult
onresult(event) ==
    /\ recognitionRef
    /\ session \in {"running", "stopping"}
    /\ LET out == OnResultLoop(event, 1,
                     [finalTranscript |-> <<>>, lastCommand |-> lastCommand],
                     isRecordingAnswerRef)
           heardNext == IF isRecordingAnswerRef
                        THEN heard \o FinalTexts(event) ELSE heard
       IN  /\ Len(heardNext) <= MaxHeard
           /\ heard' = heardNext
           /\ lastCommand' = out.lastCommand
           /\ transcript' =
                IF out.finalTranscript # <<>> /\ isRecordingAnswerRef
                THEN transcript \o out.finalTranscript
                ELSE transcript
    /\ last' = [op |-> "onresult"]
    /\ UNCHANGED <<recognitionRef, tornDown, isListening, isListeningRef,
                   isRecordingAnswer, isRecordingAnswerRef, session,
                   restartTimers, awaitingRestart>>
    /\ UNCHANGED <<synthVars, clsVars, libVars, pageVars>>

\* the errors the host reports
TransientErrors == {"no-speech", "aborted"}
CaptureErrors == TransientErrors \cup {"network", "not-allowed"}

\* the mutated error handler: every error closes the channel
ErrorClosesChannelAlways(error) == TRUE

\* What recognition.onerror does to the channel: the body of
\* if (event.error !== 'no-speech' && event.error !== 'aborted') is empty,
\* so no error closes it.
ErrorClosesChannel(error) == FALSE

\* recognition.onerror; the host ends the session after reporting an error
onerror(error) ==
    /\ recognitionRef
    /\ session \in {"running", "stopping"}
    /\ session' = "failed"
    /\ IF ErrorClosesChannel(error)
       THEN /\ isListening' = FALSE
            /\ isListeningRef' = FALSE
            /\ isRecordingAnswer' = FALSE
            /\ isRecordingAnswerRef' = FALSE
       ELSE UNCHANGED <<isListening, isListeningRef, isRecordingAnswer,
                        isRecordingAnswerRef>>
    /\ last' = [op |-> "onerror", error |-> error]
    /\ UNCHANGED <<recognitionRef, tornDown, transcript, lastCommand, restartTimers,
                   heard, awaitingRestart>>
    /\ UNCHANGED <<synthVars, clsVars, libVars, pageVars>>

\* the mutated end handler: it never schedules a restart
SchedulesRestartNever == FALSE

\* if (isListeningRef.current) setTimeout(..., 100)
SchedulesRestart == isListeningRef

\* recognition.onend: the session ended, on its own (from running), after
\* stop() (from stopping) or after an error (from failed)
onend ==
    /\ recognitionRef
    /\ session # "idle"
    /\ session' = "idle"
    /\ IF SchedulesRestart
       THEN /\ restartTimers < MaxTimers
            /\ restartTimers' = restartTimers + 1
       ELSE UNCHANGED restartTimers
    /\ awaitingRestart' = (session = "running" /\ isListeningRef)
    /\ last' = [op |-> "onend", from |-> session]
    /\ UNCHANGED <<recognitionRef, tornDown, isListening, isListeningRef,
                   isRecordingAnswer, isRecordingAnswerRef, transcript,
                   lastCommand, heard>>
    /\ UNCHANGED <<synthVars, clsVars, libVars, pageVars>>

\* the mutated timer callback: it restarts whatever the intent is now
RestartWantedAlways == recognitionRef

\* if (isListeningRef.current && recognitionRef.current)
RestartWanted == isListeningRef /\ recognitionRef

\* the callback of the setTimeout of onend
restartTimeout(fail) ==
    /\ restartTimers > 0
    /\ restartTimers' = restartTimers - 1
    /\ IF RestartWanted /\ StartSucceeds(fail)
       THEN session' = "running"
       ELSE UNCHANGED session
    /\ awaitingRestart' = FALSE
    /\ last' = [op |-> "restartTimeout",
                attempted |-> RestartWanted,
                refused |-> RestartWanted /\ session = "idle" /\ fail,
                started |-> RestartWanted /\ StartSucceeds(fail)]
    /\ UNCHANGED <<recognitionRef, tornDown, isListening, isListeningRef,
                   isRecordingAnswer, isRecordingAnswerRef, transcript,
                   lastCommand, heard>>
    /\ UNCHANGED <<synthVars, clsVars, libVars, pageVars>>

-----------------------------------------------------------------------------
(* Speech recognition: the operations the hook returns *)

\* the mutated body: without the test of isListeningRef.current
StartListeningUnguarded(fail) ==
    IF recognitionRef /\ StartSucceeds(fail)
    THEN /\ session' = "running"
         /\ isListening' = TRUE
         /\ isListeningRef' = TRUE
    ELSE UNCHANGED <<session, isListening, isListeningRef>>

\* The body of startCommandListening, on the variables it may change; it is
\* also what startAnswerRecording calls.
StartListening(fail) ==
    IF recognitionRef /\ ~isListeningRef /\ StartSucceeds(fail)
    THEN /\ session' = "running"
         /\ isListening' = TRUE
         /\ isListeningRef' = TRUE
    ELSE UNCHANGED <<session, isListening, isListeningRef>>

startCommandListening(fail) ==
    /\ StartListening(fail)
    /\ last' = [op |-> "startCommandListening"]
    /\ UNCHANGED <<recognitionRef, tornDown, isRecordingAnswer, isRecordingAnswerRef,
                   transcript, lastCommand, restartTimers, heard,
                   awaitingRestart>>
    /\ UNCHANGED <<synthVars, clsVars, libVars, pageVars>>

\* recognition.stop(): a started session goes on to deliver what it has and
\* then ends; stop() on a session that is not running changes nothing.
SessionAfterStop == IF session = "running" THEN "stopping" ELSE session

\* the mutated close: it leaves the recording flags as they are
stopCommandListeningKeepsRecording ==
    /\ IF recognitionRef
       THEN /\ isListeningRef' = FALSE
            /\ isListening' = FALSE
            /\ session' = SessionAfterStop
            /\ UNCHANGED <<isRecordingAnswerRef, isRecordingAnswer>>
       ELSE UNCHANGED <<isListeningRef, isRecordingAnswerRef, isListening,
                        isRecordingAnswer, session>>
    /\ awaitingRestart' = FALSE
    /\ last' = [op |-> "stopCommandListening"]
    /\ UNCHANGED <<recognitionRef, tornDown, transcript, lastCommand,
                   restartTimers, heard>>
    /\ UNCHANGED <<synthVars, clsVars, libVars, pageVars>>

stopCommandListening ==
    /\ IF recognitionRef
       THEN /\ isListeningRef' = FALSE
            /\ isRecordingAnswerRef' = FALSE
            /\ isListening' = FALSE
            /\ isRecordingAnswer' = FALSE
            /\ session' = SessionAfterStop
       ELSE UNCHANGED <<isListeningRef, isRecordingAnswerRef, isListening,
                        isRecordingAnswer, session>>
    /\ awaitingRestart' = FALSE
    /\ last' = [op |-> "stopCommandListening"]
    /\ UNCHANGED <<recognitionRef, tornDown, transcript, lastCommand, restartTimers,
                   heard>>
    /\ UNCHANGED <<synthVars, clsVars, libVars, pageVars>>

startAnswerRecording(fail) ==
    /\ transcript' = <<>>
    /\ isRecordingAnswer' = TRUE
    /\ isRecordingAnswerRef' = TRUE
    /\ StartListening(fail)
    /\ heard' = <<>>
    /\ last' = [op |-> "startAnswerRecording"]
    /\ UNCHANGED <<recognitionRef, tornDown, lastCommand, restartTimers,
                   awaitingRestart>>
    /\ UNCHANGED <<synthVars, clsVars, libVars, pageVars>>

\* the mutated stop: it also clears the transcript
stopAnswerRecordingClears ==
    /\ isRecordingAnswer' = FALSE
    /\ isRecordingAnswerRef' = FALSE
    /\ transcript' = <<>>
    /\ last' = [op |-> "stopAnswerRecording"]
    /\ UNCHANGED <<recognitionRef, tornDown, isListening, isListeningRef,
                   lastCommand, session, restartTimers, heard,
                   awaitingRestart>>
    /\ UNCHANGED <<synthVars, clsVars, libVars, pageVars>>

stopAnswerRecording ==
    /\ isRecordingAnswer' = FALSE
    /\ isRecordingAnswerRef' = FALSE
    /\ last' = [op |-> "stopAnswerRecording"]
    /\ UNCHANGED <<recognitionRef, tornDown, isListening, isListeningRef, transcript,
                   lastCommand, session, restartTimers, heard,
                   awaitingRestart>>
    /\ UNCHANGED <<synthVars, clsVars, libVars, pageVars>>

\* the body of resetTranscript
ResetTranscript ==
    /\ transcript' = <<>>
    /\ heard' = <<>>
    /\ UNCHANGED <<recognitionRef, tornDown, isListening, isListeningRef,
                   isRecordingAnswer, isRecordingAnswerRef, lastCommand,
                   session, restartTimers, awaitingRestart>>

resetTranscript ==
    /\ ResetTranscript
    /\ last' = [op |-> "resetTranscript"]
    /\ UNCHANGED <<synthVars, clsVars, libVars, pageVars>>

clearLastCommand ==
    /\ lastCommand' = Null
    /\ last' = [op |-> "clearLastCommand"]
    /\ UNCHANGED <<recognitionRef, tornDown, isListening, isListeningRef,
                   isRecordingAnswer, isRecordingAnswerRef, transcript,
                   session, restartTimers, heard, awaitingRestart>>
    /\ UNCHANGED <<synthVars, clsVars, libVars, pageVars>>

-----------------------------------------------------------------------------
(* Speech synthesis *)

\* An utterance is queued (submitted, not yet spoken), speaking, cancelled
\* (removed by cancel(); the host still owes its end or error event) or
\* over.  A speak() call without a synthesizer makes no utterance: its
\* record is over and resolved from the start.
Live == {"queued", "speaking"}

\* the texts the page hands to speak()
QuestionText(i) == <<"question", i>>
EvaluationText(id) == <<"evaluation", id>>

\* the texts speak() is called with when the hook is exercised alone
Texts == {QuestionText(0)}

\* synthRef.current.cancel()
Cancel(us) ==
    [u \in 1..Len(us) |->
        IF us[u].status \in Live THEN [us[u] EXCEPT !.status = "cancelled"]
        ELSE us[u]]

\* the history of the first two speak() calls before any of them
NoPreemption == [cancelledLive |-> FALSE, played |-> FALSE, falls |-> <<>>]

\* preemption after setIsSpeaking(false) by the handler of utterance u
FallBy(u) ==
    IF isSpeaking /\ Len(utterances) <= 2
    THEN [preemption EXCEPT !.falls = Append(@, u)]
    ELSE preemption

\* the body of speak(text)
Speak(text) ==
    /\ Len(utterances) < MaxSpeak
    /\ IF ~synthRef
       THEN utterances' =
                Append(utterances,
                       [text |-> text, status |-> "over", resolved |-> TRUE])
       ELSE utterances' =
                Append(Cancel(utterances),
                       [text |-> text, status |-> "queued",
                        resolved |-> FALSE])
    /\ preemption' =
         CASE Len(utterances) = 0 -> preemption
           [] Len(utterances) = 1 ->
                [preemption EXCEPT
                    !.cancelledLive = synthRef /\ utterances[1].status \in Live]
           [] OTHER -> NoPreemption
    /\ UNCHANGED <<synthRef, isSpeaking>>

speak(text) ==
    /\ Speak(text)
    /\ last' = [op |-> "speak"]
    /\ UNCHANGED <<captureVars, clsVars, libVars, pageVars>>

\* the body of stopSpeaking
StopSpeaking ==
    /\ IF synthRef
       THEN /\ utterances' = Cancel(utterances)
            /\ isSpeaking' = FALSE
            /\ preemption' = FallBy(0)
       ELSE UNCHANGED <<utterances, isSpeaking, preemption>>
    /\ UNCHANGED synthRef

stopSpeaking ==
    /\ StopSpeaking
    /\ last' = [op |-> "stopSpeaking"]
    /\ UNCHANGED <<captureVars, clsVars, libVars, pageVars>>

\* utterance.onstart of the u-th utterance
utteranceOnstart(u) ==
    /\ utterances[u].status = "queued"
    /\ utterances' = [utterances EXCEPT ![u].status = "speaking"]
    /\ isSpeaking' = TRUE
    /\ preemption' = IF u = 2 /\ Len(utterances) = 2
                     THEN [preemption EXCEPT !.played = TRUE]
                     ELSE preemption
    /\ last' = [op |-> "utterance.onstart", u |-> u]
    /\ UNCHANGED synthRef
    /\ UNCHANGED <<captureVars, clsVars, libVars, pageVars>>

\* utterance.onend of the u-th utterance: it was spoken to its end, or the
\* host reports a cancelled one as ended
utteranceOnend(u) ==
    /\ utterances[u].status \in {"speaking", "cancelled"}
    /\ utterances' = [utterances EXCEPT ![u].status = "over",
                                        ![u].resolved = TRUE]
    /\ isSpeaking' = FALSE
    /\ preemption' = FallBy(u)
    /\ last' = [op |-> "utterance.onend", u |-> u]
    /\ UNCHANGED synthRef
    /\ UNCHANGED <<captureVars, clsVars, libVars, pageVars>>

\* the mutated error handler: it forgets resolve()
ErrorResolvesNot(resolved) == resolved

\* resolve() in utterance.onerror
ErrorResolves(resolved) == TRUE

\* utterance.onerror of the u-th utterance: synthesis failed, or the
\* utterance was cancelled ('canceled', 'interrupted')
utteranceOnerror(u) ==
    /\ utterances[u].status \in {"queued", "speaking", "cancelled"}
    /\ utterances' =
         [utterances EXCEPT ![u].status = "over",
                            ![u].resolved = ErrorResolves(@)]
    /\ isSpeaking' = FALSE
    /\ preemption' = FallBy(u)
    /\ last' = [op |-> "utterance.onerror", u |-> u]
    /\ UNCHANGED synthRef
    /\ UNCHANGED <<captureVars, clsVars, libVars, pageVars>>

\* the events the host synthesizer owes the submitted utterances
synthEvent ==
    \E u \in 1..Len(utterances) :
        utteranceOnstart(u) \/ utteranceOnend(u) \/ utteranceOnerror(u)

-----------------------------------------------------------------------------
(* Teardown of the hook *)

\* recognitionRef.current.abort(): a started session delivers nothing more;
\* the host reports it as ended ('aborted').
SessionAfterAbort ==
    IF session \in {"running", "stopping"} THEN "failed" ELSE session

\* The cleanup of the mount effect (the component unmounts).  After it the
\* operations of the hook are no longer called; the host's notifications and
\* the timers set before still run.
unmount ==
    /\ ~tornDown
    /\ tornDown' = TRUE
    /\ session' = IF recognitionRef THEN SessionAfterAbort ELSE session
    /\ utterances' = IF synthRef THEN Cancel(utterances) ELSE utterances
    /\ last' = [op |-> "unmount"]
    /\ UNCHANGED <<recognitionRef, isListening, isListeningRef,
                   isRecordingAnswer, isRecordingAnswerRef, transcript,
                   lastCommand, restartTimers, heard, awaitingRestart>>
    /\ UNCHANGED <<synthRef, isSpeaking, preemption>>
    /\ UNCHANGED <<clsVars, libVars, pageVars>>

-----------------------------------------------------------------------------
(* The classifier on its own *)

\* The pieces classifier inputs are built of: every trigger phrase of the
\* table, and text without any.
TriggerPhrases ==
    UNION {{VOICE_COMMANDS[k].triggers[j] :
                j \in 1..Len(VOICE_COMMANDS[k].triggers)} :
           k \in 1..Len(VOICE_COMMANDS)}

Tokens == TriggerPhrases \cup {UttHello, <<"K_kai">>, <<"TO">>, <<"SU">>}

RECURSIVE Flatten(_)
Flatten(texts) ==
    IF texts = <<>> THEN <<>> ELSE Head(texts) \o Flatten(Tail(texts))

ClassifierInputs ==
    {Flatten(ts) : ts \in UNION {[1..n -> Tokens] : n \in 0..MaxTokens}}

classifyUtterance ==
    /\ clsCommand = Pending
    /\ clsCommand' = Classify(clsText)
    /\ last' = [op |-> "classify"]
    /\ UNCHANGED clsText
    /\ UNCHANGED <<captureVars, synthVars, libVars, pageVars>>

-----------------------------------------------------------------------------
(* The practice page: src/src/app/practice/page.tsx *)

\* Questions are numbered 0..questions-1 and question i has the id i; an
\* answer and an evaluation are modelled by the id of their question.

\* the page is mounted and none of its effects threw
Mounted == ~crashed

\* React runs the voice-command effect after the render in which
\* speech.lastCommand changed and before it handles anything else.
EffectsFlushed == lastCommand = seenCommand

\* useState(true) of autoReadEnabled; setAutoReadEnabled is never called
autoReadEnabled == TRUE

\* the text readQuestion hands to speak() for question i
AutoReadText(i) == <<"autoread", i>>

\* The effects of the render that follows a change of page state, in the
\* order of their declaration: the auto-read effect (it runs when phase,
\* currentIndex or questions changed), then the effect that resets the read
\* flag (it runs when currentIndex changed).
RenderEffects ==
    LET autoReadRuns ==
            <<phase', currentIndex', questions'>>
                # <<phase, currentIndex, questions>>
        reads == /\ autoReadRuns
                 /\ phase' = "question"
                 /\ currentIndex' < questions'
                 /\ autoReadEnabled
                 /\ ~hasReadCurrentQuestion
        resetRuns == currentIndex' # currentIndex
    IN  /\ hasReadCurrentQuestion' =
            IF resetRuns THEN FALSE ELSE (hasReadCurrentQuestion \/ reads)
        /\ readTimers' =
            IF reads THEN Append(readTimers, currentIndex') ELSE readTimers
        /\ scheduledReads' =
            IF reads THEN Append(scheduledReads, currentIndex')
            ELSE scheduledReads

\* loadSession: the questions arrived
loadSession(n) ==
    /\ Mounted
    /\ phase = "loading"
    /\ questions' = n
    /\ phase' = "question"
    /\ last' = [op |-> "loadSession"]
    /\ UNCHANGED <<currentIndex, answers, evaluations, currentEvaluation,
                   isSubmitting, seenCommand, crashed>>
    /\ RenderEffects
    /\ UNCHANGED <<captureVars, synthVars, clsVars, libVars>>

\* the mutated body of handleSkip: it records no evaluation
HandleSkipWithoutEvaluation ==
    /\ answers' = Append(answers, currentIndex)
    /\ currentEvaluation' = currentIndex
    /\ phase' = "evaluation"
    /\ UNCHANGED <<questions, currentIndex, evaluations, isSubmitting>>
    /\ UNCHANGED <<captureVars, synthVars>>

\* the body of handleSkip
HandleSkip ==
    /\ answers' = Append(answers, currentIndex)
    /\ currentEvaluation' = currentIndex
    /\ evaluations' = Append(evaluations, currentIndex)
    /\ phase' = "evaluation"
    /\ UNCHANGED <<questions, currentIndex, isSubmitting>>
    /\ UNCHANGED <<captureVars, synthVars>>

\* the mutated guard of NEXT: none
NextAllowedAlways == TRUE

\* if (phase === 'evaluation') in case 'NEXT'
NextAllowed == phase = "evaluation"

\* the mutated guard of REPEAT: none
RepeatAllowedAlways == TRUE

\* if (phase === 'question' && questions[currentIndex]) in case 'REPEAT'
RepeatAllowed == phase = "question" /\ currentIndex < questions

\* the mutated body of handleNext: it advances without the test of the index
HandleNextAlwaysAdvances ==
    /\ StopSpeaking
    /\ ResetTranscript
    /\ currentIndex' = currentIndex + 1
    /\ currentEvaluation' = Null
    /\ phase' = "question"
    /\ UNCHANGED <<questions, answers, evaluations, isSubmitting>>

\* the body of handleNext
HandleNext ==
    /\ StopSpeaking
    /\ ResetTranscript
    /\ IF currentIndex < questions - 1
       THEN /\ currentIndex' = currentIndex + 1
            /\ currentEvaluation' = Null
            /\ phase' = "question"
       ELSE /\ phase' = "results"
            /\ UNCHANGED <<currentIndex, currentEvaluation>>
    /\ UNCHANGED <<questions, answers, evaluations, isSubmitting>>

\* a call of speech.startListening or speech.stopListening: the object
\* useSpeech returns has no such property, so the call throws a TypeError
CallOfUndefined ==
    /\ crashed' = TRUE
    /\ UNCHANGED <<phase, questions, currentIndex, answers, evaluations,
                   currentEvaluation, isSubmitting>>
    /\ UNCHANGED <<captureVars, synthVars>>

\* a branch of the effect that does nothing
Nothing ==
    /\ UNCHANGED <<phase, questions, currentIndex, answers, evaluations,
                   currentEvaluation, isSubmitting, crashed>>
    /\ UNCHANGED <<captureVars, synthVars>>

\* The voice-command effect (dependencies: speech.lastCommand).  In last,
\* applied tells whether the guard of the command's branch held, phase and
\* recording are the values the effect found.
commandEffect ==
    /\ Mounted
    /\ lastCommand # seenCommand
    /\ seenCommand' = lastCommand
    /\ LET applied ==
            CASE lastCommand = "START_ANSWER" ->
                    phase = "question" /\ ~isListening
              [] lastCommand = "STOP_ANSWER" -> isListening
              [] lastCommand = "NEXT" -> NextAllowed
              [] lastCommand = "SKIP" -> phase = "question"
              [] lastCommand = "REPEAT" -> RepeatAllowed
              [] OTHER -> FALSE
       IN  /\ IF ~applied THEN Nothing
              ELSE CASE lastCommand = "START_ANSWER" -> CallOfUndefined
                     [] lastCommand = "STOP_ANSWER" -> CallOfUndefined
                     [] lastCommand = "NEXT" ->
                            HandleNext /\ UNCHANGED crashed
                     [] lastCommand = "SKIP" ->
                            HandleSkip /\ UNCHANGED crashed
                     [] lastCommand = "REPEAT" ->
                            /\ Speak(QuestionText(currentIndex))
                            /\ UNCHANGED <<phase, questions, currentIndex,
                                           answers, evaluations,
                                           currentEvaluation, isSubmitting,
                                           crashed>>
                            /\ UNCHANGED captureVars
           /\ last' = [op |-> "commandEffect", command |-> lastCommand,
                       applied |-> applied, phase |-> phase,
                       recording |-> isRecordingAnswer]
    /\ RenderEffects
    /\ UNCHANGED <<clsVars, libVars>>

\* the skip button of AnswerInput (disabled while isSubmitting)
handleSkip ==
    /\ Mounted
    /\ phase = "question"
    /\ ~isSubmitting
    /\ HandleSkip
    /\ last' = [op |-> "handleSkip"]
    /\ UNCHANGED <<seenCommand, crashed>>
    /\ RenderEffects
    /\ UNCHANGED <<clsVars, libVars>>

\* the next button of EvaluationDisplay
handleNext ==
    /\ Mounted
    /\ phase = "evaluation"
    /\ HandleNext
    /\ last' = [op |-> "handleNext"]
    /\ UNCHANGED <<seenCommand, crashed>>
    /\ RenderEffects
    /\ UNCHANGED <<clsVars, libVars>>

\* the read button of QuestionDisplay (disabled while isSpeaking)
handleReadQuestion ==
    /\ Mounted
    /\ phase \in {"question", "evaluation"}
    /\ ~isSpeaking
    /\ currentIndex < questions
    /\ Speak(QuestionText(currentIndex))
    /\ last' = [op |-> "handleReadQuestion"]
    /\ UNCHANGED <<captureVars, clsVars, libVars, pageVars>>

\* The submit button of AnswerInput: handleSubmitAnswer sets isSubmitting
\* and then calls speech.stopListening, which throws, so the promise of the
\* async handler is rejected before anything else is done.
handleSubmitAnswer ==
    /\ Mounted
    /\ phase = "question"
    /\ ~isSubmitting
    /\ isSubmitting' = TRUE
    /\ last' = [op |-> "handleSubmitAnswer"]
    /\ UNCHANGED <<phase, questions, currentIndex, answers, evaluations,
                   currentEvaluation, seenCommand, crashed, readVars>>
    /\ UNCHANGED <<captureVars, synthVars, clsVars, libVars>>

\* The timer of readQuestion fires: the closure speaks the question it was
\* created for.
readQuestion ==
    /\ readTimers # <<>>
    /\ readTimers' = Tail(readTimers)
    /\ Speak(AutoReadText(Head(readTimers)))
    /\ last' = [op |-> "readQuestion"]
    /\ UNCHANGED <<phase, questions, currentIndex, answers, evaluations,
                   currentEvaluation, isSubmitting, seenCommand, crashed,
                   hasReadCurrentQuestion, scheduledReads>>
    /\ UNCHANGED <<captureVars, clsVars, libVars>>

-----------------------------------------------------------------------------
(* The generator library: src/unnamed/part_001                             *)
(*                                                                         *)
(* A reply of the service is a sequence of tokens: the braces and the      *)
(* comma of JSON, a member ("questions": [...], "title": "...",            *)
(* "score": 7, written by its key) and prose (any text that is no JSON).   *)

Keys == {"questions", "title", "score"}

ReplyTokens == {"{", "}", ",", "prose"} \cup Keys

Replies == UNION {[1..n -> ReplyTokens] : n \in 0..MaxReply}

Positions(response, token) == {i \in 1..Len(response) : response[i] = token}

Min(S) == CHOOSE i \in S : \A j \in S : i <= j

Max(S) == CHOOSE i \in S : \A j \in S : j <= i

\* response.match(/\{[\s\S]*\}/): from the first "{" to the last "}" after
\* it; Null when there is none
JsonMatch(response) ==
    LET opens  == Positions(response, "{")
        closes == Positions(response, "}")
    IN  IF opens = {} \/ closes = {} \/ Max(closes) < Min(opens)
        THEN Null
        ELSE SubSeq(response, Min(opens), Max(closes))

\* the text is one JSON object: braces around members separated by commas
IsJsonObject(text) ==
    /\ Len(text) >= 2
    /\ text[1] = "{"
    /\ text[Len(text)] = "}"
    /\ \/ Len(text) = 2
       \/ /\ Len(text) % 2 = 1
          /\ \A i \in 2..(Len(text) - 1) :
                IF i % 2 = 0 THEN text[i] \in Keys ELSE text[i] = ","

\* JSON.parse: the keys of the object (a key written twice is one key), or
\* a SyntaxError
JSONparse(text) ==
    IF IsJsonObject(text)
    THEN [ok |-> TRUE, keys |-> {text[i] : i \in 2..(Len(text) - 1)} \cap Keys]
    ELSE [ok |-> FALSE, keys |-> {}]

Throws(error) == [kind |-> "throws", value |-> error, keys |-> {}]

\* the value a call resolves to: "undefined", a list, or an object with
\* the keys given
Returns(value, keys) == [kind |-> "returns", value |-> value, keys |-> keys]

\* JSON.parse does not throw on the matched text
Parses(text) == JSONparse(text).ok

\* lines 52-58 of generateSimpleQuestions
GenerateSimpleQuestions(response) ==
    LET jsonMatch == JsonMatch(response)
    IN  IF jsonMatch = Null
        THEN Throws("Failed to parse questions from response")
        ELSE IF ~Parses(jsonMatch) THEN Throws("SyntaxError")
        ELSE LET parsed == JSONparse(jsonMatch)
             IN  IF "questions" \in parsed.keys
                 THEN Returns("questions", {})
                 ELSE Returns("undefined", {})

\* lines 101-106 of generateScenario
GenerateScenario(response) ==
    LET jsonMatch == JsonMatch(response)
    IN  IF jsonMatch = Null
        THEN Throws("Failed to parse scenario from response")
        ELSE IF ~Parses(jsonMatch) THEN Throws("SyntaxError")
        ELSE Returns("object", JSONparse(jsonMatch).keys)

\* lines 156-165 of evaluateAnswer
EvaluateAnswer(response) ==
    LET jsonMatch == JsonMatch(response)
    IN  IF jsonMatch = Null
        THEN Throws("Failed to parse evaluation from response")
        ELSE IF ~Parses(jsonMatch) THEN Throws("SyntaxError")
        ELSE Returns("object", {"questionId"} \cup JSONparse(jsonMatch).keys)

\* no call was made yet
NoCall == [fn |-> "none", response |-> <<>>,
           result |-> Returns("undefined", {})]

generateSimpleQuestions(response) ==
    /\ outcome' = [fn |-> "generateSimpleQuestions", response |-> response,
                   result |-> GenerateSimpleQuestions(response)]
    /\ last' = [op |-> "generateSimpleQuestions"]
    /\ UNCHANGED <<captureVars, synthVars, clsVars, pageVars>>

generateScenario(response) ==
    /\ outcome' = [fn |-> "generateScenario", response |-> response,
                   result |-> GenerateScenario(response)]
    /\ last' = [op |-> "generateScenario"]
    /\ UNCHANGED <<captureVars, synthVars, clsVars, pageVars>>

evaluateAnswer(response) ==
    /\ outcome' = [fn |-> "evaluateAnswer", response |-> response,
                   result |-> EvaluateAnswer(response)]
    /\ last' = [op |-> "evaluateAnswer"]
    /\ UNCHANGED <<captureVars, synthVars, clsVars, pageVars>>

-----------------------------------------------------------------------------
(* Specifications *)

\* The state after the hook's mount effect ran: the host has a recognizer
\* or not, a synthesizer or not; nothing was started.
Init ==
    /\ recognitionRef \in BOOLEAN
    /\ tornDown = FALSE
    /\ isListening = FALSE
    /\ isListeningRef = FALSE
    /\ isRecordingAnswer = FALSE
    /\ isRecordingAnswerRef = FALSE
    /\ transcript = <<>>
    /\ lastCommand = Null
    /\ session = "idle"
    /\ restartTimers = 0
    /\ synthRef \in BOOLEAN
    /\ isSpeaking = FALSE
    /\ utterances = <<>>
    /\ phase = "loading"
    /\ questions = 0
    /\ currentIndex = 0
    /\ answers = <<>>
    /\ evaluations = <<>>
    /\ currentEvaluation = Null
    /\ isSubmitting = FALSE
    /\ seenCommand = Null
    /\ crashed = FALSE
    /\ hasReadCurrentQuestion = FALSE
    /\ readTimers = <<>>
    /\ scheduledReads = <<>>
    /\ preemption = NoPreemption
    /\ clsText = <<>>
    /\ clsCommand = Pending
    /\ outcome = NoCall
    /\ heard = <<>>
    /\ awaitingRestart = FALSE
    /\ last = [op |-> "mount"]

NextCapture ==
    \/ \E fail \in BOOLEAN : startCommandListening(fail)
    \/ stopCommandListening
    \/ \E fail \in BOOLEAN : startAnswerRecording(fail)
    \/ stopAnswerRecording
    \/ resetTranscript
    \/ clearLastCommand
    \/ \E event \in Events : onresult(event)
    \/ \E error \in CaptureErrors : onerror(error)
    \/ onend
    \/ \E fail \in BOOLEAN : restartTimeout(fail)

NextSpeech ==
    \/ \E text \in Texts : speak(text)
    \/ stopSpeaking
    \/ \E u \in 1..Len(utterances) : utteranceOnstart(u)
    \/ \E u \in 1..Len(utterances) : utteranceOnend(u)
    \/ \E u \in 1..Len(utterances) : utteranceOnerror(u)

Next == NextCapture \/ NextSpeech

\* the whole hook
Spec == Init /\ [][Next]_vars

\* the capture side alone (it never reads the playback side)
InitCapture == Init /\ synthRef

SpecCapture == InitCapture /\ [][NextCapture]_vars

\* The playback side alone; the host delivers the events it owes.
SpecSpeech == Init /\ [][NextSpeech]_vars /\ WF_vars(synthEvent)

\* The practice page with the capture side of the hook.  The page calls
\* none of the capture operations the hook returns (it calls
\* speech.startListening and speech.stopListening); the channel is opened
\* and closed, and recording started and stopped, by calls from outside the
\* page.  An action other than the voice-command effect waits for the
\* effect to have run.  The host synthesizer delivers no event here: no
\* action of the page or of the capture side reads what the events change.
InitPage == Init /\ recognitionRef /\ synthRef

NextPage ==
    \/ commandEffect
    \/ EffectsFlushed /\ \E n \in 1..MaxQuestions : loadSession(n)
    \/ EffectsFlushed /\ handleSkip
    \/ EffectsFlushed /\ handleNext
    \/ EffectsFlushed /\ handleSubmitAnswer
    \/ EffectsFlushed /\ startCommandListening(FALSE)
    \/ EffectsFlushed /\ stopCommandListening
    \/ EffectsFlushed /\ startAnswerRecording(FALSE)
    \/ EffectsFlushed /\ stopAnswerRecording
    \/ EffectsFlushed /\ \E event \in PageEvents :
                            onresult(event) /\ Len(heard') <= MaxDictated

SpecPage == InitPage /\ [][NextPage]_vars

\* The practice page with the playback side of the hook: the channel is
\* opened from outside the page and stays open, nothing is recorded.
NextPageSpeech ==
    \/ commandEffect
    \/ EffectsFlushed /\ \E n \in 1..MaxQuestions : loadSession(n)
    \/ EffectsFlushed /\ handleSkip
    \/ EffectsFlushed /\ handleNext
    \/ EffectsFlushed /\ handleReadQuestion
    \/ EffectsFlushed /\ startCommandListening(FALSE)
    \/ EffectsFlushed /\ \E event \in PlaybackEvents : onresult(event)
    \/ EffectsFlushed /\ \E u \in 1..Len(utterances) : utteranceOnstart(u)
    \/ EffectsFlushed /\ \E u \in 1..Len(utterances) : utteranceOnend(u)
    \/ EffectsFlushed /\ \E u \in 1..Len(utterances) : utteranceOnerror(u)

SpecPageSpeech == InitPage /\ [][NextPageSpeech]_vars

\* Answer recording next to playback, as a client of the hook can drive
\* them: the recording entry points, speak and stopSpeaking, and the events
\* of the synthesizer.
NextDuplex ==
    \/ startAnswerRecording(FALSE)
    \/ stopAnswerRecording
    \/ stopCommandListening
    \/ \E text \in Texts : speak(text)
    \/ stopSpeaking
    \/ \E u \in 1..Len(utterances) : utteranceOnstart(u)
    \/ \E u \in 1..Len(utterances) : utteranceOnend(u)
    \/ \E u \in 1..Len(utterances) : utteranceOnerror(u)

SpecDuplex == InitPage /\ [][NextDuplex]_vars

\* The generator library: one call, of one of the three functions, that
\* receives some reply of the service (the functions keep no state).
NextLib ==
    \/ outcome = NoCall
       /\ \E response \in Replies : generateSimpleQuestions(response)
    \/ outcome = NoCall
       /\ \E response \in Replies : generateScenario(response)
    \/ outcome = NoCall
       /\ \E response \in Replies : evaluateAnswer(response)

SpecLib == InitPage /\ [][NextLib]_vars

\* The page with the auto-read of the questions: the session is loaded,
\* questions are skipped and left through the buttons or by voice, the
\* read timers fire and the synthesizer delivers its events.
NextAutoRead ==
    \/ commandEffect
    \/ EffectsFlushed /\ \E n \in 1..MaxQuestions : loadSession(n)
    \/ EffectsFlushed /\ handleSkip
    \/ EffectsFlushed /\ handleNext
    \/ EffectsFlushed /\ readQuestion
    \/ EffectsFlushed /\ startCommandListening(FALSE)
    \/ EffectsFlushed /\ \E event \in PlaybackEvents : onresult(event)
    \/ EffectsFlushed /\ \E u \in 1..Len(utterances) : utteranceOnstart(u)
    \/ EffectsFlushed /\ \E u \in 1..Len(utterances) : utteranceOnend(u)

SpecAutoRead == InitPage /\ [][NextAutoRead]_vars

\* The result handler with events that carry several commands, with and
\* without answer recording.
NextResults ==
    \/ startCommandListening(FALSE)
    \/ startAnswerRecording(FALSE)
    \/ stopAnswerRecording
    \/ clearLastCommand
    \/ \E event \in CommandEvents : onresult(event)

SpecResults == InitPage /\ [][NextResults]_vars

\* The capture side with its teardown: until the cleanup runs the channel is
\* opened and closed and recording started; the host's notifications and the
\* restart timers run before and after it.
NextTeardown ==
    \/ ~tornDown /\ \E fail \in BOOLEAN : startCommandListening(fail)
    \/ ~tornDown /\ stopCommandListening
    \/ ~tornDown /\ \E fail \in BOOLEAN : startAnswerRecording(fail)
    \/ unmount
    \/ \E error \in CaptureErrors : onerror(error)
    \/ onend
    \/ \E fail \in BOOLEAN : restartTimeout(fail)

SpecTeardown == InitCapture /\ [][NextTeardown]_vars

\* the classifier applied to one input
InitClassifier ==
    /\ recognitionRef = TRUE
    /\ tornDown = FALSE
    /\ isListening = FALSE
    /\ isListeningRef = FALSE
    /\ isRecordingAnswer = FALSE
    /\ isRecordingAnswerRef = FALSE
    /\ transcript = <<>>
    /\ lastCommand = Null
    /\ session = "idle"
    /\ restartTimers = 0
    /\ synthRef = TRUE
    /\ isSpeaking = FALSE
    /\ utterances = <<>>
    /\ phase = "loading"
    /\ questions = 0
    /\ currentIndex = 0
    /\ answers = <<>>
    /\ evaluations = <<>>
    /\ currentEvaluation = Null
    /\ isSubmitting = FALSE
    /\ seenCommand = Null
    /\ crashed = FALSE
    /\ hasReadCurrentQuestion = FALSE
    /\ readTimers = <<>>
    /\ scheduledReads = <<>>
    /\ preemption = NoPreemption
    /\ clsText \in ClassifierInputs
    /\ clsCommand = Pending
    /\ outcome = NoCall
    /\ heard = <<>>
    /\ awaitingRestart = FALSE
    /\ last = [op |-> "mount"]

SpecClassify == InitClassifier /\ [][classifyUtterance]_vars

-----------------------------------------------------------------------------
(* Claims about the capture side, checked under SpecCapture *)

\* C1: in every reachable state, recording implies listening.
C1_RecordingImpliesListening == isRecordingAnswer => isListening

\* the dictation among the utterances heard: those without a command
IsDictation(text) == Classify(text) = Null

\* C2: the transcript is the concatenation, in delivery order, of exactly
\* the final results that arrived while recording since the last
\* startAnswerRecording / resetTranscript and in which the classifier found
\* no command.
C2_TranscriptIsDictation ==
    transcript = Flatten(SelectSeq(heard, IsDictation))

\* "hello", the command, "world" were heard while recording and the
\* transcript is "helloworld".
C2_Witness ==
    /\ heard = <<UttHello, UttNext, UttWorld>>
    /\ transcript = UttHello \o UttWorld
    /\ last.op = "onresult"

\* C5: when the session ends on its own while the controller intends to
\* listen, then as long as stopCommandListening is not called listening
\* stays true, the session stays down with a restart timer pending, and the
\* timer, when it fires and the host accepts the start, starts a session.
C5_RestartAfterSpontaneousEnd ==
    [][/\ (last'.op = "onend" /\ last'.from = "running" /\ isListeningRef)
            => awaitingRestart'
       /\ awaitingRestart'
            => isListening' /\ session' = "idle" /\ restartTimers' >= 1
       /\ (awaitingRestart /\ last'.op = "restartTimeout" /\ ~last'.refused)
            => session' = "running" /\ isListening']_vars

\* a restart timer has just started a session after a spontaneous end
C5_Witness ==
    /\ last.op = "restartTimeout"
    /\ last.started
    /\ session = "running"
    /\ isListening

\* C6: a restart whose start call failed leaves listening = false.
C6_FailedRestartClosesChannel ==
    (last.op = "restartTimeout" /\ last.attempted /\ ~last.started)
        => ~isListening

\* C7: after an error that is neither 'no-speech' nor 'aborted' the channel
\* is closed: listening is false.
C7_FatalErrorClosesChannel ==
    (last.op = "onerror" /\ last.error \notin TransientErrors)
        => ~isListening

\* C8: a transient error changes none of listening, recording, transcript
\* and lastCommand, and the end of the failed session schedules the restart
\* when the controller is listening.
C8_TransientErrorIsSilent ==
    [][/\ (last'.op = "onerror" /\ last'.error \in TransientErrors)
            => UNCHANGED <<isListening, isRecordingAnswer, transcript,
                           lastCommand>>
       /\ (last'.op = "onend" /\ last'.from = "failed" /\ isListening)
            => isListening' /\ restartTimers' = restartTimers + 1]_vars

\* a transient error hit a recording session that holds dictation
C8_Witness ==
    /\ last.op = "onerror"
    /\ last.error \in TransientErrors
    /\ isListening
    /\ isRecordingAnswer
    /\ transcript # <<>>
    /\ lastCommand # Null

-----------------------------------------------------------------------------
(* Claims about the classifier, checked under SpecClassify *)

\* the table entries with a trigger phrase contained in the text
Matching(text) ==
    {k \in 1..Len(VOICE_COMMANDS) :
        \E j \in 1..Len(VOICE_COMMANDS[k].triggers) :
            Includes(text, VOICE_COMMANDS[k].triggers[j])}

\* C3 as stated: an utterance that contains a trigger phrase of S is
\* classified S, and one that contains no trigger phrase as no command.
C3_TriggerYieldsItsSymbol ==
    clsCommand # Pending =>
        /\ \A k \in Matching(clsText) : clsCommand = VOICE_COMMANDS[k].command
        /\ Matching(clsText) = {} => clsCommand = Null

\* C3 as amended: an utterance that contains a trigger phrase of S is
\* classified S unless it also contains a trigger phrase of a symbol that
\* comes before S in the table, and then as one of those; one that contains
\* no trigger phrase is classified as no command.
C3_TriggerYieldsSymbolOrEarlier ==
    clsCommand # Pending =>
        /\ \A k \in Matching(clsText) :
              /\ \E e \in 1..k : clsCommand = VOICE_COMMANDS[e].command
              /\ (\A e \in 1..(k - 1) : e \notin Matching(clsText))
                    => clsCommand = VOICE_COMMANDS[k].command
        /\ Matching(clsText) = {} => clsCommand = Null

\* a trigger phrase of SKIP inside a longer utterance was classified SKIP
C3_Witness ==
    /\ clsText = UttHello \o <<"PA", "SU">>
    /\ clsCommand = "SKIP"

\* C4: an utterance with trigger phrases of several symbols is classified
\* as the symbol that comes first in the table, wherever the phrases occur.
C4_FirstInTableOrderWins ==
    (clsCommand # Pending /\ Cardinality(Matching(clsText)) >= 2) =>
        \E k \in Matching(clsText) :
            /\ \A e \in Matching(clsText) : k <= e
            /\ clsCommand = VOICE_COMMANDS[k].command

\* the SKIP phrase comes first in the utterance, the START_ANSWER phrase
\* after it, and the result is START_ANSWER
C4_Witness ==
    /\ clsText = <<"PA", "SU", "K_hiraku", "K_shi">>
    /\ clsCommand = "START_ANSWER"

-----------------------------------------------------------------------------
(* Claims about the playback side, checked under SpecSpeech *)

\* C9: the promise of every speak() call is eventually resolved.
C9_EverySpeakResolves ==
    \A u \in 1..MaxSpeak :
        (Len(utterances) >= u)
            ~> (Len(utterances) >= u /\ utterances[u].resolved)

\* the first utterance was preempted by the second and its error event,
\* delivered while the second is still queued or playing, resolved it
C9_Witness ==
    /\ last.op = "utterance.onerror"
    /\ last.u = 1
    /\ Len(utterances) >= 2
    /\ utterances[2].status \in Live
    /\ utterances[1].resolved

\* C10: speaking is true exactly when an utterance has started and has not
\* yet ended, failed or been cancelled.
C10_SpeakingIffPlaying ==
    isSpeaking <=> \E u \in 1..Len(utterances) :
                       utterances[u].status = "speaking"

\* C11: speak("A") followed by speak("B") before A completed cancels A, so
\* that at most one utterance is ever playing, the speaking flag goes from
\* true to false exactly once, by B's own completion, and A's promise is
\* resolved.  Stated for the two calls once B has played and every event was
\* delivered, stopSpeaking not having cut the playback.
C11_PreemptionGivesOneCycle ==
    /\ Cardinality({u \in 1..Len(utterances) :
                        utterances[u].status = "speaking"}) <= 1
    /\ ( /\ Len(utterances) = 2
         /\ preemption.cancelledLive
         /\ preemption.played
         /\ \A u \in 1..2 : utterances[u].status = "over"
         /\ \A f \in 1..Len(preemption.falls) : preemption.falls[f] # 0 )
       => /\ preemption.falls = <<2>>
          /\ utterances[1].resolved

-----------------------------------------------------------------------------
(* Claims about the operations of the capture side, under SpecCapture *)

\* C12: startCommandListening called while listening is true starts no
\* second host session and changes no state of the capture side.
C12_OpenWhileListeningIsNoOp ==
    [][(last'.op = "startCommandListening" /\ isListening)
          => UNCHANGED captureVars]_vars

\* startCommandListening was called while listening was true and the host
\* session was down, waiting for its restart (a call made while listening
\* was false leaves either listening false or a running session): no
\* session was started
C12_Witness ==
    /\ last.op = "startCommandListening"
    /\ isListening
    /\ session = "idle"
    /\ restartTimers >= 1

\* C13: stopCommandListening leaves listening = false and recording = false
\* from any state (so a second call changes nothing, and a call on a
\* channel that was never opened changes nothing).
C13_CloseLeavesChannelClosed ==
    last.op = "stopCommandListening" => ~isListening /\ ~isRecordingAnswer

\* C20: without a speech-capture facility startCommandListening,
\* stopCommandListening, startAnswerRecording and stopAnswerRecording leave
\* listening, recording and transcript as they were at mount.  (Without a
\* synthesis facility speak() resolves at once and speaking stays false.)
C20_NoCaptureFacilityNoChange ==
    ~recognitionRef =>
        ~isListening /\ ~isRecordingAnswer /\ transcript = <<>>

-----------------------------------------------------------------------------
(* Claims about the voice commands of the practice page, under SpecPage *)

\* C14: once the voice-command effect has run for a command, lastCommand is
\* null again.
C14_ConsumedCommandIsCleared ==
    (last.op = "commandEffect" /\ last.command # Null) => lastCommand = Null

\* C15: START_ANSWER recognised while a question is displayed and recording
\* is false leaves the channel open and recording true with an empty
\* transcript.
C15_StartAnswerStartsRecording ==
    ( /\ last.op = "commandEffect"
      /\ last.command = "START_ANSWER"
      /\ last.phase = "question"
      /\ ~last.recording )
    => isListening /\ isRecordingAnswer /\ transcript = <<>>

\* C16: START_ANSWER recognised while recording is true changes nothing:
\* the effect does not fail, recording stays true and the transcript is
\* kept.
C16_StartAnswerWhileRecordingIsNoOp ==
    ( /\ last.op = "commandEffect"
      /\ last.command = "START_ANSWER"
      /\ last.recording )
    => ~crashed /\ isRecordingAnswer

\* C17: STOP_ANSWER recognised while recording leaves recording false.
C17_StopAnswerStopsRecording ==
    ( /\ last.op = "commandEffect"
      /\ last.command = "STOP_ANSWER"
      /\ last.recording )
    => ~isRecordingAnswer

\* C18: NEXT recognised in the evaluation phase advances the session (to the
\* next question, or to the results after the last one) and SKIP recognised
\* in the question phase skips the question; recognised in any other phase,
\* each changes neither phase, currentIndex, answers nor evaluations.
C18_NextAndSkipAreGuardedByPhase ==
    [][/\ (last'.op = "commandEffect" /\ last'.command = "NEXT")
            => IF phase = "evaluation"
               THEN /\ phase' = IF currentIndex < questions - 1
                                THEN "question" ELSE "results"
                    /\ currentIndex' = IF currentIndex < questions - 1
                                       THEN currentIndex + 1
                                       ELSE currentIndex
                    /\ UNCHANGED <<answers, evaluations>>
               ELSE UNCHANGED <<phase, currentIndex, answers, evaluations>>
       /\ (last'.op = "commandEffect" /\ last'.command = "SKIP")
            => IF phase = "question"
               THEN /\ phase' = "evaluation"
                    /\ answers' = Append(answers, currentIndex)
                    /\ evaluations' = Append(evaluations, currentIndex)
                    /\ UNCHANGED currentIndex
               ELSE UNCHANGED <<phase, currentIndex, answers, evaluations>>
      ]_vars

\* NEXT was recognised while the second question was displayed, after the
\* first had been skipped: the effect ran and the session did not move
C18_Witness ==
    /\ last.op = "commandEffect"
    /\ last.command = "NEXT"
    /\ last.phase = "question"
    /\ phase = "question"
    /\ currentIndex = 1
    /\ answers = <<0>>
    /\ evaluations = <<0>>

-----------------------------------------------------------------------------
(* Claims about the spoken prompts of the practice page, under             *)
(* SpecPageSpeech                                                          *)

-----------------------------------------------------------------------------
(* Further claims about the capture side, under SpecCapture *)

\* C22: when startAnswerRecording is called after stopCommandListening and
\* before the end event of the closed session, then at that end event the
\* controller is listening and the restart of the session is scheduled.
\* (Recording is true when a session ends after stop() only in this case:
\* stopCommandListening had cleared it.)
C22_StartBeforeEndOfClosedSession ==
    (last.op = "onend" /\ last.from = "stopping" /\ isRecordingAnswer)
        => isListening /\ restartTimers >= 1

\* C23: resetTranscript leaves the transcript empty and lastCommand null.
C23_ResetClearsTranscriptAndCommand ==
    last.op = "resetTranscript" => transcript = <<>> /\ lastCommand = Null

\* C25: stopAnswerRecording leaves recording false and changes nothing
\* else, the transcript included (so a second call changes nothing, and a
\* call right after startAnswerRecording leaves the transcript empty); a
\* result event that arrives while recording is false leaves the transcript
\* as it is.
C25_StopRecordingKeepsTranscript ==
    [][/\ last'.op = "stopAnswerRecording"
            => /\ ~isRecordingAnswer' /\ ~isRecordingAnswerRef'
               /\ UNCHANGED <<transcript, isListening, isListeningRef,
                              lastCommand, session, restartTimers>>
       /\ (last'.op = "stopAnswerRecording" /\ ~isRecordingAnswer)
            => UNCHANGED captureVars
       /\ (last'.op = "stopAnswerRecording"
           /\ last.op = "startAnswerRecording")
            => transcript' = <<>>
       /\ (last'.op = "onresult" /\ ~isRecordingAnswer)
            => UNCHANGED transcript]_vars

\* dictation was recorded and recording stopped: the transcript is kept
C25_Witness ==
    /\ last.op = "stopAnswerRecording"
    /\ ~isRecordingAnswer
    /\ isListening
    /\ transcript = UttHello \o UttWorld

\* C26: startAnswerRecording leaves recording true, the transcript empty and
\* the capture channel open.
C26_StartRecordingOpensChannel ==
    last.op = "startAnswerRecording"
        => isRecordingAnswer /\ transcript = <<>> /\ isListening

\* C27: stopCommandListening keeps the transcript and, with a recognizer,
\* ends the recording; from then on, until startAnswerRecording is called
\* again, recording stays off and no result event changes the transcript,
\* the results the stopped session still delivers included.
C27_CloseKeepsTranscript ==
    [][/\ last'.op = "stopCommandListening"
            => /\ UNCHANGED transcript
               /\ recognitionRef => ~isRecordingAnswerRef'
       /\ (~isRecordingAnswerRef /\ last'.op # "startAnswerRecording")
            => ~isRecordingAnswerRef'
       /\ (~isRecordingAnswerRef /\ last'.op = "onresult")
            => UNCHANGED transcript]_vars

\* the channel was closed while "hello" was recorded; the stopped session
\* then delivered a result and the transcript is still "hello"
C27_Witness ==
    /\ last.op = "onresult"
    /\ session = "stopping"
    /\ ~isListening
    /\ ~isRecordingAnswer
    /\ heard = <<UttHello>>
    /\ transcript = UttHello

\* C28: a result event that carries interim results only changes neither
\* the transcript nor lastCommand.
C28_InterimResultsChangeNothing ==
    [][(\E event \in InterimEvents : onresult(event))
          => UNCHANGED <<transcript, lastCommand>>]_vars

\* a result event arrived while recording and left heard empty, so it
\* carried no final result; transcript and lastCommand are as at the start
C28_Witness ==
    /\ last.op = "onresult"
    /\ isRecordingAnswer
    /\ heard = <<>>
    /\ transcript = <<>>
    /\ lastCommand = Null


-----------------------------------------------------------------------------
(* Claims about recording next to playback, under SpecDuplex *)

\* C24: in no state is an utterance playing while recording is true.
C24_NoPlaybackWhileRecording ==
    isRecordingAnswer => \A u \in 1..Len(utterances) :
                            utterances[u].status # "speaking"

-----------------------------------------------------------------------------
(* Claims about the generator library, under SpecLib *)

\* the fields a reply must carry for each function
ExpectedKeys(fn) ==
    CASE fn = "generateSimpleQuestions" -> {"questions"}
      [] fn = "generateScenario" -> {"title", "questions"}
      [] fn = "evaluateAnswer" -> {"score"}

\* the reply holds one JSON object with the fields the function expects
WellFormed(fn, response) ==
    /\ JsonMatch(response) # Null
    /\ IsJsonObject(JsonMatch(response))
    /\ ExpectedKeys(fn) \subseteq JSONparse(JsonMatch(response)).keys

\* C29: each of the three functions throws when the reply of the service
\* holds no JSON object, holds invalid JSON, or holds a JSON object that
\* lacks a field the function expects.
C29_MalformedReplyFails ==
    (outcome.fn # "none" /\ ~WellFormed(outcome.fn, outcome.response))
        => outcome.result.kind = "throws"

-----------------------------------------------------------------------------
(* Claims about the auto-read of the questions, under SpecAutoRead *)

\* the number of times the auto-read was started for question i
ReadsOf(i) ==
    Cardinality({k \in 1..Len(scheduledReads) : scheduledReads[k] = i})

\* C30: whenever the page shows a question (the effects of the render
\* done), the auto-read was started exactly once for that question: for
\* the first question and for each later question as well.
C30_EveryQuestionIsReadOnce ==
    (Mounted /\ phase = "question") => ReadsOf(currentIndex) = 1

-----------------------------------------------------------------------------
(* Further claims about the voice commands of the page, under SpecPage *)

\* the command a result event leaves in lastCommand, Null when none
CommandOf(event) ==
    OnResultLoop(event, 1, [finalTranscript |-> <<>>, lastCommand |-> Null],
                 FALSE).lastCommand

\* the guard of the branch of a command in the voice-command effect
GuardOf(command) ==
    CASE command = "START_ANSWER" -> phase = "question" /\ ~isListening
      [] command = "STOP_ANSWER" -> isListening
      [] command = "NEXT" -> NextAllowed
      [] command = "SKIP" -> phase = "question"
      [] command = "REPEAT" -> RepeatAllowed
      [] OTHER -> FALSE

\* C31: when a result event delivers a command whose guard holds, the
\* voice-command effect is due for it (and it runs before anything else
\* does), also when lastCommand already held the same command.
C31_GuardedCommandRunsItsHandler ==
    [][\A event \in PageEvents :
          (/\ onresult(event)
           /\ Mounted
           /\ CommandOf(event) # Null
           /\ GuardOf(CommandOf(event)))
              => lastCommand' # seenCommand']_vars

-----------------------------------------------------------------------------
(* Claims about the commands in a result event, under SpecResults *)

\* the symbol of the first table entry with a trigger phrase contained in
\* the utterance, Null when there is none; computed once per utterance
SymbolIn ==
    [t \in PageUtterances |->
        IF Matching(t) = {} THEN Null
        ELSE VOICE_COMMANDS[Min(Matching(t))].command]

\* the final results of an event that contain a trigger phrase
CommandResultsOf(event) ==
    {i \in 1..Len(event) : event[i].isFinal /\ SymbolIn[event[i].text] # Null}

\* C32: a result event leaves in lastCommand the symbol of its last final
\* result that contains a trigger phrase, and leaves lastCommand as it is
\* when it has no such result; recording or not.
C32_LastCommandOfEvent ==
    [][\A event \in CommandEvents :
          onresult(event) =>
              lastCommand' =
                  IF CommandResultsOf(event) = {} THEN lastCommand
                  ELSE SymbolIn[event[Max(CommandResultsOf(event))].text]]_vars

\* SKIP was classified by a result event although recording is off and
\* nothing was recorded
C32_Witness ==
    /\ last.op = "onresult"
    /\ ~isRecordingAnswer
    /\ heard = <<>>
    /\ transcript = <<>>
    /\ lastCommand = "SKIP"

-----------------------------------------------------------------------------
(* Claims about closing during the restart delay, under SpecCapture *)

\* C33: stopCommandListening withdraws the intent to listen, and a restart
\* timer that fires while the intent is withdrawn (the channel was closed
\* after the timer was set) calls no start(): the session and every other
\* capture variable stay as they are and listening is false.
C33_CloseDuringBackoffCancelsRestart ==
    [][/\ (last'.op = "stopCommandListening" /\ recognitionRef)
            => ~isListeningRef' /\ ~isListening'
       /\ (last'.op = "restartTimeout" /\ ~isListeningRef)
            => /\ ~last'.attempted
               /\ ~isListening'
               /\ UNCHANGED <<session, isListening, isListeningRef,
                              isRecordingAnswer, transcript, lastCommand>>]_vars

\* the session ended on its own, the channel was closed while the restart
\* timer was pending, and the timer has fired without a start
C33_Witness ==
    /\ last.op = "restartTimeout"
    /\ ~last.attempted
    /\ restartTimers = 0
    /\ session = "idle"
    /\ ~isListening

-----------------------------------------------------------------------------
(* Claims about the course of a session, under SpecPage *)

NextHandled(l) ==
    \/ l.op = "handleNext"
    \/ l.op = "commandEffect" /\ l.command = "NEXT" /\ l.applied

C36_FailedSubmissionLeavesNoTrace ==
    last.op = "handleSubmitAnswer"
        => /\ phase = "question"
           /\ ~isSubmitting
           /\ \A k \in 1..Len(answers) : answers[k] # currentIndex
           /\ \A k \in 1..Len(evaluations) : evaluations[k] # currentIndex

-----------------------------------------------------------------------------
(* Claims about the teardown, under SpecTeardown *)

\* C21: after the cleanup of the hook no host capture session is started:
\* none is running in any state after the teardown.
C21_NoSessionAfterTeardown ==
    tornDown => session \notin {"running", "stopping"}

=============================================================================
